---- MODULE Spec2Model ----
(***************************************************************************)
(* A model of ax/models/torch/botorch_defaults.py (the Model Selector,     *)
(* Model Fitter, Predictor, Acquisition Builder and Candidate Optimizer),  *)
(* of the BotorchModel facade that drives them and of the                  *)
(* PercentileEarlyStoppingStrategy.                                        *)
(*                                                                         *)
(* Tensors.  A 2-d tensor is a sequence of rows, a row a sequence of       *)
(* integers.  An X tensor is a sequence of rows, each row abstracted to    *)
(* one integer (the identity of the d-vector).  Observed variances are     *)
(* integers in units of 1e-7, so the noise floor 1e-7 is 1.                *)
(* Optional[T] is a sequence of length 0 (None) or 1 (the value).          *)
(***************************************************************************)
EXTENDS Integers, Sequences, FiniteSets, TLC

VARIABLES
    call,       \* a direct call of a function of botorch_defaults: fn, args, done, ret
    heap,       \* the caller's Yvar tensors, by tensor identity (mutable in place)
    facade,     \* the BotorchModel facade's fields
    everFit,    \* history: some fit has completed on the facade
    last        \* the last facade operation and its outcome

vars == <<call, heap, facade, everFit, last>>

----------------------------------------------------------------------------
(* Bounds *)

MaxOutcomes == 2
MaxParam == 1
MaxPoints == 2
MaxTrials == 5
MaxCandidates == 2

----------------------------------------------------------------------------
(* Values *)

None == <<>>
Some(x) == <<x>>
IsNone(o) == o = <<>>
Val(o) == o[1]

\* float('nan') in a variance tensor
NaN == -99

\* botorch_defaults.MIN_OBSERVED_NOISE_LEVEL = 1e-7, in units of 1e-7
MIN_OBSERVED_NOISE_LEVEL == 1

Max(a, b) == IF a >= b THEN a ELSE b
Min(a, b) == IF a <= b THEN a ELSE b

----------------------------------------------------------------------------
(* Tensor operations *)

NumRows(T) == Len(T)
NumCols(T) == IF Len(T) = 0 THEN 0 ELSE Len(T[1])

\* torch.equal(A, B): same shape and same elements
TorchEqual(A, B) == A = B

RECURSIVE CatRow(_, _, _)
CatRow(Ts, i, k) ==
    IF k > Len(Ts) THEN <<>> ELSE Ts[k][i] \o CatRow(Ts, i, k + 1)

\* torch.cat(Ts, dim=-1): the k-th tensor's columns follow those of the (k-1)-th
Cat(Ts) == [i \in 1..NumRows(Ts[1]) |-> CatRow(Ts, i, 1)]

RECURSIVE FlattenFrom(_, _)
FlattenFrom(T, i) == IF i > Len(T) THEN <<>> ELSE T[i] \o FlattenFrom(T, i + 1)

\* T.view(-1): row-major
View1(T) == FlattenFrom(T, 1)

\* T.permute(1, 0)
Permute10(T) == [j \in 1..NumCols(T) |-> [i \in 1..NumRows(T) |-> T[i][j]]]

\* Tensor.clamp_min(lo): NaN stays NaN
ClampMin(T, lo) ==
    [i \in 1..NumRows(T) |->
        [j \in 1..Len(T[i]) |-> IF T[i][j] = NaN THEN NaN ELSE Max(T[i][j], lo)]]

\* torch.any(torch.isnan(T)), torch.all(torch.isnan(T))
AnyNan(T) == \E i \in 1..NumRows(T) : \E j \in 1..Len(T[i]) : T[i][j] = NaN
AllNan(T) == \A i \in 1..NumRows(T) : \A j \in 1..Len(T[i]) : T[i][j] = NaN

----------------------------------------------------------------------------
(* botorch model objects (external constructors: they keep what they get) *)

\* train_targets as botorch lays them out: n for one output, o x n for a batch
TrainTargets(Y) == IF NumCols(Y) = 1 THEN View1(Y) ELSE Permute10(Y)

NoModel == [kind |-> "None", train_X |-> <<>>, train_Y |-> <<>>, train_Yvar |-> <<>>,
            train_targets |-> <<>>, task_feature |-> None, data_fidelity |-> None,
            models |-> <<>>, params |-> 0]

SingleTaskMultiFidelityGP(X, Y, fid) ==
    [NoModel EXCEPT !.kind = "SingleTaskMultiFidelityGP", !.train_X = X, !.train_Y = Y,
                    !.train_targets = TrainTargets(Y), !.data_fidelity = Some(fid)]

SingleTaskGP(X, Y) ==
    [NoModel EXCEPT !.kind = "SingleTaskGP", !.train_X = X, !.train_Y = Y,
                    !.train_targets = TrainTargets(Y)]

FixedNoiseGP(X, Y, Yvar) ==
    [NoModel EXCEPT !.kind = "FixedNoiseGP", !.train_X = X, !.train_Y = Y,
                    !.train_Yvar = Yvar, !.train_targets = TrainTargets(Y)]

MultiTaskGP(X, Y, task) ==
    [NoModel EXCEPT !.kind = "MultiTaskGP", !.train_X = X, !.train_Y = Y,
                    !.train_targets = View1(Y), !.task_feature = Some(task)]

\* train_Y and train_Yvar arrive flattened (Y.view(-1), Yvar.view(-1))
FixedNoiseMultiTaskGP(X, Yflat, Yvarflat, task) ==
    [NoModel EXCEPT !.kind = "FixedNoiseMultiTaskGP", !.train_X = X, !.train_Y = Yflat,
                    !.train_Yvar = Yvarflat, !.train_targets = Yflat,
                    !.task_feature = Some(task)]

ModelListGP(models) == [NoModel EXCEPT !.kind = "ModelListGP", !.models = models]

----------------------------------------------------------------------------
(* _get_model: the Model Selector *)

\* Mutant of MixedVariances: `not all_nan_Yvar` dropped
MixedVariances_AnyUnknown(Yvar) == AnyNan(Yvar)

\* `any_nan_Yvar and not all_nan_Yvar`
MixedVariances(Yvar) == AnyNan(Yvar) /\ ~AllNan(Yvar)

\* Python truth of an Optional[int]: None and 0 are both false
Truthy(opt) == ~IsNone(opt) /\ Val(opt) # 0

\* Mutant of NoTask: index 0 taken for no task feature
NoTask_Falsy(task_feature) == ~Truthy(task_feature)

\* `task_feature is None`
NoTask(task_feature) == IsNone(task_feature)

\* The branch on (fidelity_features, task_feature, all_nan_Yvar), Yvar already clamped.
\* fidelity_features is the list after `None -> []`.
SelectModel(X, Y, Yvar, task_feature, fidelity_features) ==
    IF Len(fidelity_features) > 0 THEN
        IF Truthy(task_feature)
        THEN [err |-> "NotImplementedError", gp |-> NoModel]
        ELSE [err |-> "none",
              gp |-> SingleTaskMultiFidelityGP(X, Y, fidelity_features[1])]
    ELSE IF NoTask(task_feature) /\ AllNan(Yvar) THEN
        [err |-> "none", gp |-> SingleTaskGP(X, Y)]
    ELSE IF NoTask(task_feature) THEN
        [err |-> "none", gp |-> FixedNoiseGP(X, Y, Yvar)]
    ELSE IF AllNan(Yvar) THEN
        [err |-> "none", gp |-> MultiTaskGP(X, Y, Val(task_feature))]
    ELSE
        [err |-> "none",
         gp |-> FixedNoiseMultiTaskGP(X, View1(Y), View1(Yvar), Val(task_feature))]

\* _get_model(X, Y, Yvar, task_feature, fidelity_features).  task_feature is an
\* Optional[int], fidelity_features an Optional[List[int]].  The result holds the
\* error raised ("none" if it returns), the model built, and Yvar: what the tensor the
\* caller passed holds afterwards (clamp_min_ writes into it, before any check).
_get_model(X, Y, Yvar, task_feature, fidelity_features) ==
    LET clamped == ClampMin(Yvar, MIN_OBSERVED_NOISE_LEVEL)
        ff == IF IsNone(fidelity_features) THEN <<>> ELSE Val(fidelity_features)
    IN  IF MixedVariances(clamped)
        THEN [err |-> "ValueError", gp |-> NoModel, Yvar |-> clamped]
        ELSE LET r == SelectModel(X, Y, clamped, task_feature, ff)
             IN  [err |-> r.err, gp |-> r.gp, Yvar |-> clamped]

\* The keyword arguments of one _get_model call, as the Model Fitter passes them
SelectorCall(X, Y, Yvar, task_feature, fidelity_features) ==
    [X |-> X, Y |-> Y, Yvar |-> Yvar, task_feature |-> task_feature,
     fidelity_features |-> fidelity_features]

----------------------------------------------------------------------------
(* get_and_fit_model: the Model Fitter *)

\* Mutant of FeatureValidation: the count of task features is not checked
FeatureValidation_NoTaskCount(task_features, fidelity_features) ==
    IF Len(fidelity_features) > 0 /\ Len(task_features) > 0 THEN "NotImplementedError"
    ELSE IF Len(fidelity_features) > 1 THEN "NotImplementedError"
    ELSE "none"

\* The three checks on the feature lists, in order
FeatureValidation(task_features, fidelity_features) ==
    IF Len(fidelity_features) > 0 /\ Len(task_features) > 0 THEN "NotImplementedError"
    ELSE IF Len(fidelity_features) > 1 THEN "NotImplementedError"
    ELSE IF Len(task_features) > 1 THEN "NotImplementedError"
    ELSE "none"

\* task_feature = task_features[0] if there is exactly one, else None
TaskFeatureOf(task_features) ==
    IF Len(task_features) = 1 THEN Some(task_features[1]) ELSE None

\* all(torch.equal(Xs[0], X) for X in Xs[1:])
AllXsEqual(Xs) == \A i \in 2..Len(Xs) : TorchEqual(Xs[1], Xs[i])

\* Mutant of NeedsFit: `state_dict is None` dropped
NeedsFit_RefitOnly(state_dict, refit_model) == refit_model

\* `state_dict is None or refit_model`
NeedsFit(state_dict, refit_model) == IsNone(state_dict) \/ refit_model

\* What a Model Fitter run has done so far
FitTrace(err, model, calls, h) ==
    [err |-> err, model |-> model, calls |-> calls, heap |-> h,
     loads |-> 0, mll |-> 0, mllKind |-> "none"]

\* The list comprehension over zip(Xs, Ys, Yvars): one _get_model call per outcome,
\* in order, each on the caller's own Yvar tensor (h maps tensor identity to content);
\* fidelity_features is not passed.  The first error ends it.
RECURSIVE ModelListCalls(_, _, _, _, _, _)
ModelListCalls(h, Xs, Ys, Yv, task_feature, i) ==
    IF i > Len(Xs) THEN FitTrace("none", ModelListGP(<<>>), <<>>, h)
    ELSE LET r == _get_model(Xs[i], Ys[i], h[Yv[i]], task_feature, None)
             c == SelectorCall(Xs[i], Ys[i], h[Yv[i]], task_feature, None)
             h1 == [h EXCEPT ![Yv[i]] = r.Yvar]
         IN  IF r.err # "none" THEN FitTrace(r.err, NoModel, <<c>>, h1)
             ELSE LET rest == ModelListCalls(h1, Xs, Ys, Yv, task_feature, i + 1)
                  IN  IF rest.err # "none"
                      THEN FitTrace(rest.err, NoModel, <<c>> \o rest.calls, rest.heap)
                      ELSE FitTrace("none", ModelListGP(<<r.gp>> \o rest.model.models),
                                    <<c>> \o rest.calls, rest.heap)

\* Model construction: the single-outcome call, the batched call on the concatenated
\* Y and Yvar (fresh tensors: the clamp does not reach the caller's), or the list.
BuildModel(h, Xs, Ys, Yv, task_feature, fidelity_features) ==
    IF IsNone(task_feature) /\ Len(Xs) = 1 THEN
        LET r == _get_model(Xs[1], Ys[1], h[Yv[1]], task_feature, Some(fidelity_features))
            c == SelectorCall(Xs[1], Ys[1], h[Yv[1]], task_feature, Some(fidelity_features))
        IN  FitTrace(r.err, r.gp, <<c>>, [h EXCEPT ![Yv[1]] = r.Yvar])
    ELSE IF IsNone(task_feature) /\ AllXsEqual(Xs) THEN
        LET Y == Cat(Ys)
            Yvar == Cat([i \in 1..Len(Yv) |-> h[Yv[i]]])
            r == _get_model(Xs[1], Y, Yvar, task_feature, Some(fidelity_features))
            c == SelectorCall(Xs[1], Y, Yvar, task_feature, Some(fidelity_features))
        IN  FitTrace(r.err, r.gp, <<c>>, h)
    ELSE ModelListCalls(h, Xs, Ys, Yv, task_feature, 1)

\* load_state_dict if a snapshot is given, then fit_gpytorch_model if NeedsFit;
\* opt is what the external optimizer leaves in the parameters.
LoadAndFit(t, state_dict, refit_model, opt) ==
    LET loaded == IF IsNone(state_dict) THEN t.model
                  ELSE [t.model EXCEPT !.params = Val(state_dict)]
        fit == NeedsFit(state_dict, refit_model)
    IN  [t EXCEPT !.model = IF fit THEN [loaded EXCEPT !.params = opt] ELSE loaded,
                  !.loads = IF IsNone(state_dict) THEN 0 ELSE 1,
                  !.mll = IF fit THEN 1 ELSE 0,
                  !.mllKind = IF ~fit THEN "none"
                              ELSE IF t.model.kind = "ModelListGP"
                                   THEN "SumMarginalLogLikelihood"
                                   ELSE "ExactMarginalLogLikelihood"]

\* get_and_fit_model(Xs, Ys, Yvars, task_features, fidelity_features, state_dict,
\* refit_model).  Yv names the caller's Yvar tensors, h holds their content.
get_and_fit_model(h, Xs, Ys, Yv, task_features, fidelity_features, state_dict, refit_model, opt) ==
    LET verr == FeatureValidation(task_features, fidelity_features)
    IN  IF verr # "none" THEN FitTrace(verr, NoModel, <<>>, h)
        ELSE LET t == BuildModel(h, Xs, Ys, Yv, TaskFeatureOf(task_features),
                                 fidelity_features)
             IN  IF t.err # "none" THEN t
                 ELSE LoadAndFit(t, state_dict, refit_model, opt)

----------------------------------------------------------------------------
(* predict_from_model: the Predictor *)

\* torch.diag_embed(V): n x o -> n x o x o
DiagEmbed(V) ==
    [i \in 1..NumRows(V) |->
        [j \in 1..Len(V[i]) |-> [k \in 1..Len(V[i]) |-> IF j = k THEN V[i][j] ELSE 0]]]

\* Mutant of PredictedVariance: clamp_min(0) dropped
PredictedVariance_Unclamped(posterior) == posterior.variance

\* posterior.variance.cpu().detach().clamp_min(0)
PredictedVariance(posterior) == ClampMin(posterior.variance, 0)

\* predict_from_model(model, X), given the posterior that model.posterior(X) returns
predict_from_model(posterior) ==
    [mean |-> posterior.mean, cov |-> DiagEmbed(PredictedVariance(posterior))]

----------------------------------------------------------------------------
(* get_NEI: the Acquisition Builder *)

\* kwargs.get(key, default), a keyword argument being an Optional
KwargsGet(opt, default) == IF IsNone(opt) THEN default ELSE Val(opt)

NoAcqf == [name |-> "none", objective |-> "none", X_observed |-> None,
           X_pending |-> None, prune_baseline |-> FALSE, mc_samples |-> 0,
           qmc |-> FALSE, seed |-> 0]

\* What a get_NEI run has done: the error raised, the objective module constructed,
\* whether get_infeasible_cost ran, the acquisition function returned
NEITrace(err, objective, inf_cost, acqf) ==
    [err |-> err, objective |-> objective, inf_cost |-> inf_cost, acqf |-> acqf]

\* get_NEI(model, objective_weights, outcome_constraints, X_observed, X_pending,
\* **kwargs).  seed is the torch.randint draw.  ext says what the external library
\* does when it is handed a tensor of no observed points ("ok" or "error"): its
\* behaviour there is its own.
get_NEI(model, objective_weights, outcome_constraints, X_observed, X_pending, kwargs, seed, ext) ==
    IF IsNone(X_observed) THEN NEITrace("ValueError", "none", FALSE, NoAcqf)
    ELSE
        LET X == Val(X_observed)
            fails == Len(X) = 0 /\ ext = "error"
            constrained == ~IsNone(outcome_constraints)
            objective == IF constrained THEN "ConstrainedMCObjective"
                         ELSE "LinearMCObjective"
        IN  IF constrained /\ fails
            THEN \* get_infeasible_cost raises, before ConstrainedMCObjective
                 NEITrace("ExternalError", "none", TRUE, NoAcqf)
            ELSE IF fails
            THEN \* get_acquisition_function raises, the objective is constructed
                 NEITrace("ExternalError", objective, FALSE, NoAcqf)
            ELSE NEITrace("none", objective, constrained,
                          [name |-> "qNEI", objective |-> objective,
                           X_observed |-> X_observed, X_pending |-> X_pending,
                           prune_baseline |-> KwargsGet(kwargs.prune_baseline, TRUE),
                           mc_samples |-> KwargsGet(kwargs.mc_samples, 512),
                           qmc |-> KwargsGet(kwargs.qmc, TRUE),
                           seed |-> seed])

----------------------------------------------------------------------------
(* scipy_optimizer: the Candidate Optimizer *)

\* kwargs is a record of optional entries; joint_optimization holds 0 (False) or
\* 1 (True) when present.  optimize_acqf is external: what is kept of it is the
\* call it receives.
OptimizeAcqfCall(n, num_restarts, raw_samples, options, ineq, fixed, sequential) == [q |-> n, num_restarts |-> num_restarts, raw_samples |-> raw_samples, options |-> options, inequality_constraints |-> ineq, fixed_features |-> fixed, sequential |-> sequential]

\* Mutant of JointRequested: the entry's presence is enough
JointRequested_IfPresent(kwargs) == ~IsNone(kwargs.joint_optimization)

\* kwargs.get("joint_optimization", False), as the condition of line 231
JointRequested(kwargs) == KwargsGet(kwargs.joint_optimization, 0) # 0

\* kwargs as handed on in options: in sequential mode with "method" set if it was not
SolverOptions(kwargs) ==
    IF JointRequested(kwargs) THEN kwargs
    ELSE IF IsNone(kwargs.method) THEN [kwargs EXCEPT !.method = Some("SLSQP")]
    ELSE kwargs

scipy_optimizer(acq_function, bounds, n, inequality_constraints, fixed_features, rounding_func, kwargs) ==
    LET num_restarts == KwargsGet(kwargs.num_restarts, 20)
        raw_samples == KwargsGet(kwargs.num_raw_samples, 50 * num_restarts)
        sequential == ~JointRequested(kwargs)
    IN  [solver_calls |-> << OptimizeAcqfCall(n, num_restarts, raw_samples,
                                             SolverOptions(kwargs), inequality_constraints,
                                             fixed_features, sequential) >>,
         X_rows |-> n]

----------------------------------------------------------------------------
(* Training data the callers draw from *)

\* X tensors (n = 2 rows): the test data's X and a shifted copy of it
XTensors == {<<1, 2>>, <<3, 4>>}

\* One outcome's observations (Y, Yvar), n x 1 each: known noise with an entry below
\* the floor, noise unknown throughout, a mix of unknown and known, constant known noise
Observations ==
    { [Y |-> << <<3>>, <<4>> >>, Yvar |-> << <<0>>, <<2>> >>],
      [Y |-> << <<3>>, <<4>> >>, Yvar |-> << <<NaN>>, <<NaN>> >>],
      [Y |-> << <<5>>, <<6>> >>, Yvar |-> << <<NaN>>, <<2>> >>],
      [Y |-> << <<5>>, <<6>> >>, Yvar |-> << <<10>>, <<10>> >>] }

\* Lists of feature columns, as task_features or fidelity_features
FeatureLists == {<<>>, <<0>>, <<1>>, <<0, 1>>}

\* Parameter snapshots (state_dict), and what the optimizer may leave behind
Snapshots == 1..MaxParam
OptResults == {1, MaxParam + 1}

OutcomeData == [X : XTensors, obs : Observations]

JointSets == UNION {[1..n -> OutcomeData] : n \in 1..MaxOutcomes}

XsOf(js) == [i \in 1..Len(js) |-> js[i].X]
YsOf(js) == [i \in 1..Len(js) |-> js[i].obs.Y]
YvarsOf(js) == [i \in 1..Len(js) |-> js[i].obs.Yvar]

----------------------------------------------------------------------------
(* Direct calls of get_and_fit_model and _get_model *)

IdleCall == [fn |-> "none", args |-> <<>>, done |-> TRUE, ret |-> <<>>]

FitArgs ==
    { [Xs |-> XsOf(js), Ys |-> YsOf(js), Yvars |-> YvarsOf(js),
       task_features |-> tf, fidelity_features |-> ff,
       state_dict |-> sd, refit_model |-> rf, opt |-> opt] :
      js \in JointSets, tf \in FeatureLists, ff \in FeatureLists,
      sd \in {None} \cup {Some(p) : p \in Snapshots}, rf \in BOOLEAN,
      opt \in OptResults }

\* What _get_model may be handed: one outcome's observations, or two concatenated
SelectorObservations ==
    Observations \cup
    { [Y |-> Cat(<<a.Y, b.Y>>), Yvar |-> Cat(<<a.Yvar, b.Yvar>>)] :
      a \in Observations, b \in Observations }

SelectorArgs ==
    { [X |-> X, Y |-> o.Y, Yvar |-> o.Yvar, task_feature |-> tf,
       fidelity_features |-> ff] :
      X \in XTensors, o \in SelectorObservations,
      tf \in {None, Some(0), Some(1)},
      ff \in {None} \cup {Some(l) : l \in FeatureLists} }

\* The caller's Yvar tensors of a direct call, numbered by position
ArgHeap(Yvars) == [i \in 1..Len(Yvars) |-> Yvars[i]]
ArgIds(Yvars) == [i \in 1..Len(Yvars) |-> i]

FitCall ==
    /\ call.fn = "get_and_fit_model" /\ ~call.done
    /\ LET a == call.args
       IN  call' = [call EXCEPT
                !.done = TRUE,
                !.ret = get_and_fit_model(ArgHeap(a.Yvars), a.Xs, a.Ys, ArgIds(a.Yvars),
                                          a.task_features, a.fidelity_features,
                                          a.state_dict, a.refit_model, a.opt)]
    /\ UNCHANGED <<heap, facade, everFit, last>>

SelectorCallDirect ==
    /\ call.fn = "_get_model" /\ ~call.done
    /\ LET a == call.args
       IN  call' = [call EXCEPT
                !.done = TRUE,
                !.ret = _get_model(a.X, a.Y, a.Yvar, a.task_feature, a.fidelity_features)]
    /\ UNCHANGED <<heap, facade, everFit, last>>

----------------------------------------------------------------------------
(* The facade (BotorchModel): its fields and operations *)

\* The tensors the facade's caller holds and passes (again and again) to fit, update
\* and cross_validate.  A Yvar tensor is known by its identity: the facade stores the
\* tensor it is given, _get_model writes into it.
InitHeap ==
    << << <<0>>, <<2>> >>,          \* 1: known noise, one entry below the floor
       << <<10>>, <<10>> >>,        \* 2: known noise above the floor
       << <<NaN>>, <<2>> >> >>      \* 3: unknown and known noise mixed

DataPool ==
    { [X |-> <<1, 2>>, Y |-> << <<3>>, <<4>> >>, yv |-> 1],
      [X |-> <<1, 2>>, Y |-> << <<5>>, <<6>> >>, yv |-> 2],
      [X |-> <<3, 4>>, Y |-> << <<5>>, <<6>> >>, yv |-> 3] }

FacadeSets == UNION {[1..n -> DataPool] : n \in 1..MaxOutcomes}

PoolXs(js) == [i \in 1..Len(js) |-> js[i].X]
PoolYs(js) == [i \in 1..Len(js) |-> js[i].Y]
PoolYv(js) == [i \in 1..Len(js) |-> js[i].yv]

\* (task_features, fidelity_features) as fit is given them
FacadeFeatureArgs ==
    { << <<>>, <<>> >>, << <<0>>, <<>> >>, << <<>>, <<0>> >>,
      << <<0>>, <<0>> >>, << <<0, 1>>, <<>> >> }

\* The content of the tensors named by ids, in h
Deref(h, ids) == [i \in 1..Len(ids) |-> h[ids[i]]]

\* BotorchModel(): empty and unfit, refit_on_update set, refit_on_cv not
InitFacade ==
    [model |-> NoModel, Xs |-> <<>>, Ys |-> <<>>, Yvars |-> <<>>,
     task_features |-> <<>>, fidelity_features |-> <<>>,
     refit_on_update |-> TRUE, refit_on_cv |-> FALSE]

NoArgs == [Xs |-> <<>>, Ys |-> <<>>, Yvars |-> <<>>, YvarVals |-> <<>>]

Outcome(op, err, mll, args) == [op |-> op, err |-> err, mll |-> mll, args |-> args]

InitLast == Outcome("new", "none", 0, NoArgs)

FacadeIdle ==
    /\ heap = InitHeap
    /\ facade = InitFacade
    /\ everFit = FALSE
    /\ last = InitLast

\* Mutant of IsUnfit: the facade never refuses
IsUnfit_Never(f) == FALSE

\* The facade holds no fitted model
IsUnfit(f) == f.model = NoModel

\* The arguments of a fit or update, the Yvar tensors also by what they hold when passed
CallArgs(js) ==
    [Xs |-> PoolXs(js), Ys |-> PoolYs(js), Yvars |-> PoolYv(js),
     YvarVals |-> Deref(heap, PoolYv(js))]

\* fit(Xs, Ys, Yvars, bounds, task_features, feature_names, fidelity_features):
\* always allowed; invokes the Model Fitter with no snapshot; on success stores the
\* inputs and the model; a fatal error leaves the fields as they were.
Fit ==
    \E js \in FacadeSets, fa \in FacadeFeatureArgs, opt \in OptResults :
        \E r \in {get_and_fit_model(heap, PoolXs(js), PoolYs(js), PoolYv(js),
                                    fa[1], fa[2], None, TRUE, opt)} :
            /\ heap' = r.heap
            /\ IF r.err = "none"
               THEN /\ facade' = [facade EXCEPT
                          !.model = r.model, !.Xs = PoolXs(js), !.Ys = PoolYs(js),
                          !.Yvars = PoolYv(js), !.task_features = fa[1],
                          !.fidelity_features = fa[2]]
                    /\ everFit' = TRUE
                    /\ last' = Outcome("fit", "none", r.mll, CallArgs(js))
               ELSE /\ UNCHANGED <<facade, everFit>>
                    /\ last' = Outcome("fit", r.err, r.mll, NoArgs)
            /\ UNCHANGED call

\* update(Xs, Ys, Yvars): a RuntimeError on an unfit facade; else the Model Fitter on
\* the new data, refitting if refit_on_update is set and loading the current model's
\* parameters if not; on success the stored training tensors are replaced.
Update ==
    \E js \in FacadeSets, opt \in OptResults :
        IF IsUnfit(facade)
        THEN /\ last' = Outcome("update", "RuntimeError", 0, NoArgs)
             /\ UNCHANGED <<call, heap, facade, everFit>>
        ELSE \E r \in {get_and_fit_model(heap, PoolXs(js), PoolYs(js), PoolYv(js),
                         facade.task_features, facade.fidelity_features,
                         IF facade.refit_on_update THEN None
                         ELSE Some(facade.model.params),
                         facade.refit_on_update, opt)} :
                 /\ heap' = r.heap
                 /\ IF r.err = "none"
                    THEN /\ facade' = [facade EXCEPT
                               !.model = r.model, !.Xs = PoolXs(js),
                               !.Ys = PoolYs(js), !.Yvars = PoolYv(js)]
                         /\ last' = Outcome("update", "none", r.mll, CallArgs(js))
                    ELSE /\ UNCHANGED facade
                         /\ last' = Outcome("update", r.err, r.mll, NoArgs)
                 /\ UNCHANGED <<call, everFit>>

\* cross_validate(Xs_train, Ys_train, Yvars_train, X_test): a RuntimeError on an unfit
\* facade; else a fresh model on the training set, refit if refit_on_cv is set and
\* with the current parameters if not, and a prediction; the fields are not touched.
CrossValidate ==
    \E js \in FacadeSets, opt \in OptResults :
        IF IsUnfit(facade)
        THEN /\ last' = Outcome("cross_validate", "RuntimeError", 0, NoArgs)
             /\ UNCHANGED <<call, heap, facade, everFit>>
        ELSE \E r \in {get_and_fit_model(heap, PoolXs(js), PoolYs(js), PoolYv(js),
                         facade.task_features, facade.fidelity_features,
                         IF facade.refit_on_cv THEN None
                         ELSE Some(facade.model.params),
                         facade.refit_on_cv, opt)} :
                 /\ heap' = r.heap
                 /\ last' = Outcome("cross_validate", r.err, r.mll, NoArgs)
                 /\ UNCHANGED <<call, facade, everFit>>

\* feature_importances(): a RuntimeError on an unfit facade; reads the model only
FeatureImportances ==
    /\ last' = Outcome("feature_importances",
                       IF IsUnfit(facade) THEN "RuntimeError" ELSE "none", 0, NoArgs)
    /\ UNCHANGED <<call, heap, facade, everFit>>

\* model.refit_on_update = b, model.refit_on_cv = b
SetRefitOnUpdate ==
    \E b \in BOOLEAN :
        /\ facade' = [facade EXCEPT !.refit_on_update = b]
        /\ last' = Outcome("set_refit_on_update", "none", 0, NoArgs)
        /\ UNCHANGED <<call, heap, everFit>>

SetRefitOnCv ==
    \E b \in BOOLEAN :
        /\ facade' = [facade EXCEPT !.refit_on_cv = b]
        /\ last' = Outcome("set_refit_on_cv", "none", 0, NoArgs)
        /\ UNCHANGED <<call, heap, everFit>>

Init == call = IdleCall /\ FacadeIdle

Next ==
    \/ Fit
    \/ Update
    \/ CrossValidate
    \/ FeatureImportances
    \/ SetRefitOnUpdate
    \/ SetRefitOnCv

Spec == Init /\ [][Next]_vars

----------------------------------------------------------------------------
(* Properties of the facade, under Spec *)

\* The operations an unfit facade refuses
Guarded == {"update", "cross_validate", "feature_importances"}

\* C1: while no fit has completed, every update, cross_validate and
\* feature_importances ends in a RuntimeError and leaves the facade unfit; the facade
\* goes from unfit to fit only in a successful fit; and whenever one of the three
\* operations succeeds, a fit has completed before it.
C1_UnfitFacadeRejects ==
    [][ /\ (~everFit /\ last'.op \in Guarded)
            => (last'.err = "RuntimeError" /\ facade'.model = NoModel)
        /\ (facade.model = NoModel /\ facade'.model # NoModel)
            => (last'.op = "fit" /\ last'.err = "none")
        /\ (last'.op \in Guarded /\ last'.err = "none") => everFit ]_vars

\* C1 witness: one of the three operations was refused on a facade never fit
C1_Witness ==
    /\ last.op \in Guarded
    /\ last.err = "RuntimeError"
    /\ ~everFit
    /\ IsUnfit(facade)

\* C2: after a successful update the stored Xs, Ys and Yvars are the arguments of that
\* call, the Yvars holding what the caller passed, and the marginal likelihood was
\* optimized only if refit_on_update is set.
C2_UpdateReplacesTrainingSet ==
    (last.op = "update" /\ last.err = "none")
    => /\ facade.Xs = last.args.Xs
       /\ facade.Ys = last.args.Ys
       /\ Deref(heap, facade.Yvars) = last.args.YvarVals
       /\ (last.mll > 0 => facade.refit_on_update)

\* After a successful update the facade stores the very tensors it was passed, none
\* of the earlier ones, and has refit only if refit_on_update is set.
C2_UpdateStoresPassedTensors ==
    (last.op = "update" /\ last.err = "none")
    => /\ facade.Xs = last.args.Xs
       /\ facade.Ys = last.args.Ys
       /\ facade.Yvars = last.args.Yvars
       /\ (last.mll > 0 => facade.refit_on_update)

\* What the facade stores, the Yvar tensors by their content
StoredState ==
    [Xs |-> facade.Xs, Ys |-> facade.Ys, Yvars |-> Deref(heap, facade.Yvars),
     task_features |-> facade.task_features,
     fidelity_features |-> facade.fidelity_features,
     model |-> facade.model, fit |-> ~IsUnfit(facade)]

\* C3: a fit or update that ends in a fatal error leaves the stored Xs, Ys, Yvars,
\* task and fidelity indices, model and FIT/UNFIT status exactly as they were.
C3_FailedCallLeavesStateIntact ==
    [][ (last'.op \in {"fit", "update"} /\ last'.err # "none")
        => StoredState' = StoredState ]_vars

\* A fit or update that ends in a fatal error assigns none of the facade's fields.
C3_FailedCallAssignsNoField ==
    [][ (last'.op \in {"fit", "update"} /\ last'.err # "none")
        => facade' = facade ]_vars

----------------------------------------------------------------------------
(* Specification of the direct Model Fitter and Model Selector calls *)

InitFit ==
    /\ \/ \E a \in FitArgs :
            call = [fn |-> "get_and_fit_model", args |-> a, done |-> FALSE, ret |-> <<>>]
       \/ \E a \in SelectorArgs :
            call = [fn |-> "_get_model", args |-> a, done |-> FALSE, ret |-> <<>>]
    /\ FacadeIdle

NextFit == FitCall \/ SelectorCallDirect

SpecFit == InitFit /\ [][NextFit]_vars

----------------------------------------------------------------------------
(* Properties of get_and_fit_model and _get_model, under SpecFit *)

FitDone == call.fn = "get_and_fit_model" /\ call.done
SelectorDone == call.fn = "_get_model" /\ call.done

HasUnknown(Yvar) == \E i \in 1..Len(Yvar) : \E j \in 1..Len(Yvar[i]) : Yvar[i][j] = NaN
HasKnown(Yvar) == \E i \in 1..Len(Yvar) : \E j \in 1..Len(Yvar[i]) : Yvar[i][j] # NaN

\* A Joint Training Set as the data model has it: every outcome's Yvar all unknown or
\* all known, at most one fidelity column
IsJointTrainingSet(a) ==
    /\ \A i \in 1..Len(a.Yvars) : ~(HasUnknown(a.Yvars[i]) /\ HasKnown(a.Yvars[i]))
    /\ Len(a.fidelity_features) <= 1

PairwiseIdentical(Xs) == \A i, j \in 1..Len(Xs) : Xs[i] = Xs[j]

\* C5: for every Joint Training Set with n >= 2 outcomes and no task feature,
\* get_and_fit_model returns a single batched model (one selector call on Xs[0] with Ys
\* and Yvars concatenated along the outcome axis, targets stacked o x n) if and only if
\* all Xs are pairwise identical; otherwise it returns a model-list of exactly n
\* submodels, the i-th built from exactly (Xs[i], Ys[i], Yvars[i]).
C5_BatchedIffIdenticalXs ==
    (/\ FitDone
     /\ Len(call.args.Xs) >= 2
     /\ call.args.task_features = <<>>
     /\ IsJointTrainingSet(call.args))
    => LET a == call.args
           r == call.ret
           n == Len(a.Xs)
       IN  IF PairwiseIdentical(a.Xs)
           THEN /\ r.err = "none"
                /\ r.model.kind # "ModelListGP"
                /\ Len(r.calls) = 1
                /\ r.calls[1].X = a.Xs[1]
                /\ r.calls[1].Y = Cat(a.Ys)
                /\ r.calls[1].Yvar = Cat(a.Yvars)
                /\ r.model.train_targets = [i \in 1..n |-> View1(a.Ys[i])]
           ELSE /\ r.err = "none"
                /\ r.model.kind = "ModelListGP"
                /\ Len(r.model.models) = n
                /\ Len(r.calls) = n
                /\ \A i \in 1..n :
                      /\ r.calls[i].X = a.Xs[i]
                      /\ r.calls[i].Y = a.Ys[i]
                      /\ r.calls[i].Yvar = a.Yvars[i]
                      /\ r.model.models[i].train_X = a.Xs[i]
                      /\ r.model.models[i].train_Y = a.Ys[i]

\* C6: on every get_and_fit_model call that builds its model, the marginal likelihood
\* is maximized exactly once when no state_dict is given or refit_model is true, and
\* not at all when a state_dict is given and refit_model is false; in the latter case
\* the returned model's parameters are the state_dict's.
C6_FitOnceUnlessSnapshotKept ==
    (FitDone /\ call.ret.err = "none")
    => LET a == call.args
           r == call.ret
       IN  /\ (IsNone(a.state_dict) \/ a.refit_model) => r.mll = 1
           /\ (~IsNone(a.state_dict) /\ ~a.refit_model)
              => (r.mll = 0 /\ r.loads = 1 /\ r.model.params = Val(a.state_dict))

\* C6 witness: a snapshot was given with refit_model false, the optimizer would have
\* left other parameters, and the model came back unfitted with the snapshot's
C6_Witness ==
    /\ FitDone /\ call.ret.err = "none"
    /\ ~IsNone(call.args.state_dict) /\ ~call.args.refit_model
    /\ call.args.opt # Val(call.args.state_dict)
    /\ call.ret.mll = 0
    /\ call.ret.model.params = Val(call.args.state_dict)

\* C7: get_and_fit_model raises NotImplementedError whenever task_features and
\* fidelity_features are both non-empty, whenever fidelity_features has more than one
\* element and whenever task_features has more than one element, and then before any
\* selector call, state_dict load or likelihood maximization.
C7_FeatureValidationFirst ==
    (/\ FitDone
     /\ \/ Len(call.args.fidelity_features) > 0 /\ Len(call.args.task_features) > 0
        \/ Len(call.args.fidelity_features) > 1
        \/ Len(call.args.task_features) > 1)
    => /\ call.ret.err = "NotImplementedError"
       /\ call.ret.calls = <<>>
       /\ call.ret.loads = 0
       /\ call.ret.mll = 0
       /\ call.ret.model = NoModel

\* C7 witness: two task columns and no fidelity column, rejected
C7_Witness ==
    /\ FitDone
    /\ Len(call.args.task_features) = 2 /\ call.args.fidelity_features = <<>>
    /\ call.ret.err = "NotImplementedError"

\* C8: _get_model raises ValueError whenever its Yvar holds at least one unknown (NaN)
\* and at least one known entry, whatever the task index and fidelity list, and builds
\* no model then; when Yvar is all unknown or all known it does not raise ValueError.
C8_MixedVariancesRejected ==
    SelectorDone
    => LET a == call.args
           r == call.ret
       IN  IF HasUnknown(a.Yvar) /\ HasKnown(a.Yvar)
           THEN r.err = "ValueError" /\ r.gp = NoModel
           ELSE r.err # "ValueError"

\* C8 witness: a mixed Yvar together with a task index and a fidelity column
C8_Witness ==
    /\ SelectorDone
    /\ HasUnknown(call.args.Yvar) /\ HasKnown(call.args.Yvar)
    /\ call.args.task_feature = Some(1)
    /\ call.args.fidelity_features = Some(<<0>>)
    /\ call.ret.err = "ValueError"

\* The fidelity list of the direct _get_model call is absent or empty
NoFidelity == IsNone(call.args.fidelity_features) \/ Val(call.args.fidelity_features) = <<>>

\* The variant the branch table names for the direct _get_model call
TableVariant ==
    IF IsNone(call.args.task_feature)
    THEN IF AllNan(call.args.Yvar) THEN "SingleTaskGP" ELSE "FixedNoiseGP"
    ELSE IF AllNan(call.args.Yvar) THEN "MultiTaskGP" ELSE "FixedNoiseMultiTaskGP"

\* The entries of the tensor T in row-major order
RowMajor(T) == [k \in 1..(NumRows(T) * NumCols(T)) |-> T[((k - 1) \div NumCols(T)) + 1][((k - 1) % NumCols(T)) + 1]]

\* C13: with an empty fidelity list and noise all unknown or all known, _get_model
\* returns one model, not a list, whose variant is fixed by (task index given?, noise
\* all unknown?): SingleTaskGP, FixedNoiseGP, MultiTaskGP (also for task index 0) or
\* FixedNoiseMultiTaskGP, the last on Y and Yvar flattened; the variant is a function
\* of those two alone.
C13_BranchTable ==
    (SelectorDone /\ NoFidelity /\ ~(HasUnknown(call.args.Yvar) /\ HasKnown(call.args.Yvar)))
    => /\ call.ret.err = "none"
       /\ call.ret.gp.kind = TableVariant
       /\ call.ret.gp.models = <<>>
       /\ call.ret.gp.train_X = call.args.X
       /\ ~IsNone(call.args.task_feature)
          => call.ret.gp.task_feature = call.args.task_feature
       /\ TableVariant = "FixedNoiseMultiTaskGP"
          => /\ call.ret.gp.train_Y = RowMajor(call.args.Y)
             /\ call.ret.gp.train_Yvar
                  = RowMajor(ClampMin(call.args.Yvar, MIN_OBSERVED_NOISE_LEVEL))

\* C13 witness: task index 0, known noise on two concatenated outcomes, no fidelity
\* list: the multi-task fixed-noise model on flattened Y
C13_Witness ==
    /\ SelectorDone /\ NoFidelity
    /\ call.args.task_feature = Some(0)
    /\ NumCols(call.args.Y) = 2
    /\ ~HasUnknown(call.args.Yvar)
    /\ call.ret.gp.kind = "FixedNoiseMultiTaskGP"
    /\ Len(call.ret.gp.train_Y) = 4

\* C14: with exactly one task feature get_and_fit_model makes a single _get_model
\* call and the model it returns is not a ModelListGP, for any number of outcomes and
\* whether or not the Xs are identical.
C14_TaskFeatureSingleCall ==
    (FitDone /\ Len(call.args.task_features) = 1 /\ call.args.fidelity_features = <<>>)
    => /\ Len(call.ret.calls) <= 1
       /\ call.ret.err = "none"
          => (Len(call.ret.calls) = 1 /\ call.ret.model.kind # "ModelListGP")

\* With exactly one task feature the model returned is a ModelListGP of one multi-task
\* model per outcome, one _get_model call each.
C14_TaskFeatureModelList ==
    (FitDone /\ Len(call.args.task_features) = 1 /\ call.ret.err = "none")
    => /\ call.ret.model.kind = "ModelListGP"
       /\ Len(call.ret.calls) = Len(call.args.Xs)
       /\ Len(call.ret.model.models) = Len(call.args.Xs)
       /\ \A i \in 1..Len(call.args.Xs) :
             call.ret.model.models[i].kind \in {"MultiTaskGP", "FixedNoiseMultiTaskGP"}

\* The model m is the multi-fidelity variant on fidelity column f
IsMultiFidelity(m, f) == m.kind = "SingleTaskMultiFidelityGP" /\ m.data_fidelity = Some(f)

\* C15: with exactly one fidelity feature and no task feature, every model that
\* get_and_fit_model constructs is the multi-fidelity variant on that column: the
\* single model for one outcome or identical Xs, and each submodel of the model-list.
C15_FidelityAlwaysMultiFidelity ==
    (/\ FitDone
     /\ call.args.task_features = <<>>
     /\ Len(call.args.fidelity_features) = 1
     /\ call.ret.err = "none")
    => IF call.ret.model.kind = "ModelListGP"
       THEN \A i \in 1..Len(call.ret.model.models) :
               IsMultiFidelity(call.ret.model.models[i], call.args.fidelity_features[1])
       ELSE IsMultiFidelity(call.ret.model, call.args.fidelity_features[1])

\* With one fidelity feature and no task feature the single-call paths do build the
\* multi-fidelity variant on that column.
C15_SingleCallMultiFidelity ==
    (/\ FitDone
     /\ call.args.task_features = <<>>
     /\ Len(call.args.fidelity_features) = 1
     /\ call.ret.err = "none"
     /\ call.ret.model.kind # "ModelListGP")
    => IsMultiFidelity(call.ret.model, call.args.fidelity_features[1])

\* The Yvar of the direct _get_model call is all unknown or all known
UniformNoise(Yvar) == ~(HasUnknown(Yvar) /\ HasKnown(Yvar))

\* C16: _get_model called with a non-empty fidelity list and a task index, 0 included,
\* raises NotImplementedError and constructs no model.
C16_FidelityWithTaskRejected ==
    (/\ SelectorDone
     /\ ~NoFidelity
     /\ ~IsNone(call.args.task_feature)
     /\ UniformNoise(call.args.Yvar))
    => /\ call.ret.err = "NotImplementedError"
       /\ call.ret.gp = NoModel

\* With a non-empty fidelity list, a task index other than 0 is rejected.
C16_NonZeroTaskRejected ==
    (/\ SelectorDone
     /\ ~NoFidelity
     /\ ~IsNone(call.args.task_feature) /\ Val(call.args.task_feature) # 0
     /\ UniformNoise(call.args.Yvar))
    => /\ call.ret.err = "NotImplementedError"
       /\ call.ret.gp = NoModel

\* C17: after _get_model returns or raises, the caller's Yvar holds what it held
\* before the call; after get_and_fit_model on a single outcome the caller's Yvars[0]
\* is unchanged.
C17_InputsUntouched ==
    /\ SelectorDone => call.ret.Yvar = call.args.Yvar
    /\ (FitDone /\ Len(call.args.Xs) = 1) => call.ret.heap[1] = call.args.Yvars[1]

\* C18: when each outcome's Yvar is on its own all unknown or all known,
\* get_and_fit_model does not raise the mixed-variance ValueError, identical Xs with
\* some outcomes of unknown and others of known noise included.
C18_UniformOutcomesAccepted ==
    (FitDone /\ \A i \in 1..Len(call.args.Yvars) : UniformNoise(call.args.Yvars[i]))
    => call.ret.err # "ValueError"

----------------------------------------------------------------------------
(* Specification of the direct Predictor calls *)

\* What a posterior may report as a variance: numerical noise can make it negative
PosteriorVariances == {-1, 0, 1}
PosteriorMeans == {0, 4}

\* model.posterior(X) for n query points and a model of o outcomes: mean and variance,
\* n x o each
Posteriors(n, o) ==
    { [mean |-> [i \in 1..n |-> [j \in 1..o |-> mu]], variance |-> v] :
      mu \in PosteriorMeans, v \in [1..n -> [1..o -> PosteriorVariances]] }

PredictArgs(n, o, post) == [num_outputs |-> o, X |-> [i \in 1..n |-> i], posterior |-> post]

PredictCall ==
    /\ call.fn = "predict_from_model" /\ ~call.done
    /\ call' = [call EXCEPT !.done = TRUE,
                            !.ret = predict_from_model(call.args.posterior)]
    /\ UNCHANGED <<heap, facade, everFit, last>>

InitPredict ==
    /\ \E n \in 1..MaxPoints, o \in 1..MaxOutcomes : \E post \in Posteriors(n, o) :
          call = [fn |-> "predict_from_model", args |-> PredictArgs(n, o, post),
                  done |-> FALSE, ret |-> <<>>]
    /\ FacadeIdle

NextPredict == PredictCall

SpecPredict == InitPredict /\ [][NextPredict]_vars

PredictDone == call.fn = "predict_from_model" /\ call.done

\* C9: predict_from_model on n query points for a model with o outcomes returns a mean
\* of shape n x o and a covariance of shape n x o x o in which, for every point, the
\* off-diagonal entries are zero and each diagonal entry is max(posterior variance, 0),
\* hence >= 0 even when the posterior reports a negative variance.
C9_DiagonalNonNegativeCovariance ==
    PredictDone
    => LET n == Len(call.args.X)
           o == call.args.num_outputs
           v == call.args.posterior.variance
           r == call.ret
       IN  /\ Len(r.mean) = n
           /\ \A i \in 1..n : Len(r.mean[i]) = o
           /\ Len(r.cov) = n
           /\ \A i \in 1..n :
                 /\ Len(r.cov[i]) = o
                 /\ \A j \in 1..o :
                       /\ Len(r.cov[i][j]) = o
                       /\ r.cov[i][j][j] = (IF v[i][j] > 0 THEN v[i][j] ELSE 0)
                       /\ r.cov[i][j][j] >= 0
                       /\ \A k \in 1..o : k # j => r.cov[i][j][k] = 0

\* C9 witness: two points, two outcomes, and a negative posterior variance
C9_Witness ==
    /\ PredictDone
    /\ Len(call.args.X) = 2 /\ call.args.num_outputs = 2
    /\ call.args.posterior.variance[2][1] < 0
    /\ call.ret.cov[2][1][1] = 0

----------------------------------------------------------------------------
(* Specification of the direct Acquisition Builder calls *)

NEIArgs ==
    { [objective_weights |-> w, outcome_constraints |-> oc, X_observed |-> xo,
       X_pending |-> xp,
       kwargs |-> [prune_baseline |-> pb, mc_samples |-> mc, qmc |-> q],
       seed |-> sd, ext |-> e] :
      w \in {<<1, 0>>, <<-1, 1>>},
      oc \in {None, Some([A |-> << <<0, 1>> >>, b |-> << <<5>> >>])},
      xo \in {None, Some(<<>>), Some(<<1>>), Some(<<1, 2>>)},
      xp \in {None, Some(<<7>>)},
      pb \in {None, Some(FALSE)}, mc \in {None, Some(16)}, q \in {None, Some(FALSE)},
      sd \in {1, 9999}, e \in {"ok", "error"} }

NEICall ==
    /\ call.fn = "get_NEI" /\ ~call.done
    /\ LET a == call.args
       IN  call' = [call EXCEPT
                !.done = TRUE,
                !.ret = get_NEI("model", a.objective_weights, a.outcome_constraints,
                                a.X_observed, a.X_pending, a.kwargs, a.seed, a.ext)]
    /\ UNCHANGED <<heap, facade, everFit, last>>

InitNEI ==
    /\ \E a \in NEIArgs :
          call = [fn |-> "get_NEI", args |-> a, done |-> FALSE, ret |-> <<>>]
    /\ FacadeIdle

NextNEI == NEICall

SpecNEI == InitNEI /\ [][NextNEI]_vars

NEIDone == call.fn = "get_NEI" /\ call.done

\* C4: get_NEI fails with a ValueError whenever X_observed is absent or empty (no
\* feasible reference points), before any objective or acquisition function is
\* constructed.
C4_NoObservedPointsRejected ==
    (/\ NEIDone
     /\ \/ IsNone(call.args.X_observed)
        \/ Len(Val(call.args.X_observed)) = 0)
    => /\ call.ret.err = "ValueError"
       /\ call.ret.objective = "none"
       /\ call.ret.acqf = NoAcqf

\* The part of C4 the code does implement: an absent X_observed is a ValueError
\* before anything is constructed
C4_AbsentObservedRejected ==
    (NEIDone /\ IsNone(call.args.X_observed))
    => /\ call.ret.err = "ValueError"
       /\ call.ret.objective = "none"
       /\ call.ret.acqf = NoAcqf

----------------------------------------------------------------------------
(* PercentileEarlyStoppingStrategy *)

\* A learning curve is the sequence of a trial's metric values, at progressions
\* 0, 1, ...; the empty curve is a trial with no data.  The metric is minimized:
\* the larger value is the worse one.
LastProgression(curve) == Len(curve) - 1

ValueAt(curve, p) == curve[p + 1]

SetMin(S) == CHOOSE x \in S : \A y \in S : x <= y

RECURSIVE SortAsc(_, _)
\* The values vals[i], i in S, in ascending order
SortAsc(S, vals) ==
    IF S = {} THEN <<>>
    ELSE LET i == CHOOSE k \in S : \A j \in S : vals[k] <= vals[j]
         IN  <<vals[i]>> \o SortAsc(S \ {i}, vals)

\* 100 times the q-th percentile of the ascending sequence a, interpolated linearly
\* between the two nearest ranks
Percentile100(a, q) ==
    LET pos == (Len(a) - 1) * q
        f == pos \div 100
        r == pos % 100
    IN  IF r = 0 THEN 100 * a[f + 1]
        ELSE 100 * a[f + 1] + r * (a[f + 2] - a[f + 1])

\* Mutant of IsWorseThan: a value equal to the percentile counts as worse
IsWorseThan_OrEqual(v, p100) == 100 * v >= p100

\* v is worse than the percentile p100 / 100
IsWorseThan(v, p100) == 100 * v > p100

StopResult(err, stop) == [err |-> err, stop |-> stop]

\* The trials of the experiment that have any curve data
TrialsWithData(experiment) == {i \in DOMAIN experiment.curves : Len(experiment.curves[i]) > 0}

\* The most recent progression all the candidate trials cands have reached
CommonProgression(experiment, cands) == SetMin({LastProgression(experiment.curves[i]) : i \in cands})

\* Step 1 of the policy: fewer than min_curves trials have curve data
TooFewCurves(s, withData) == Cardinality(withData) < s.min_curves

\* Mutant of BelowMinProgression: min_progression is not looked at
BelowMinProgression_Ignored(s, prog) == FALSE

\* Step 2 of the policy: the most recent common progression is below min_progression
BelowMinProgression(s, prog) == prog < s.min_progression

\* should_stop_trials_early(trial_indices, experiment) of the strategy s
should_stop_trials_early(s, trial_indices, experiment) ==
    LET curves == experiment.curves
        withData == TrialsWithData(experiment)
        cands == trial_indices \cap withData
    IN  IF experiment.data # "map" THEN StopResult("ValueError", {})
        ELSE IF TooFewCurves(s, withData) THEN StopResult("none", {})
        ELSE IF cands = {} THEN StopResult("none", {})
        ELSE LET prog == CommonProgression(experiment, cands)
                 at == {i \in withData : LastProgression(curves[i]) >= prog}
                 vals == [i \in at |-> ValueAt(curves[i], prog)]
                 p100 == Percentile100(SortAsc(at, vals), 100 - s.percentile_threshold)
             IN  IF BelowMinProgression(s, prog) THEN StopResult("none", {})
                 ELSE StopResult("none", {i \in cands : IsWorseThan(vals[i], p100)})

----------------------------------------------------------------------------
(* Specification of the calls of the early stopping strategy *)

MetricValues == {1, 2, 4, 7, 11}

Thresholds == {25, 50, 75}

PercentileEarlyStoppingStrategy(pt, mc, mp) == [percentile_threshold |-> pt, min_curves |-> mc, min_progression |-> mp]

\* An experiment whose trials have all reached progression 1, with the values v
\* there; the order of the trials at progression 0 is the reverse
FullExperiment(v) == [data |-> "map", curves |-> [i \in DOMAIN v |-> <<12 - v[i], v[i]>>]]

\* Experiments of three trials, some without data or behind the others, and
\* experiments whose data is missing or is not progression-indexed
PartialExperiments ==
    { [data |-> d, curves |-> c] :
      d \in {"map", "not_map", "none"},
      c \in [1..3 -> {<<>>, <<4>>, <<2, 7>>, <<7, 2>>}] }

CandidateSets(experiment) ==
    { DOMAIN experiment.curves, {i \in DOMAIN experiment.curves : i % 2 = 1} }

StopArgs(s, trial_indices, experiment) == [strategy |-> s, experiment |-> experiment, trial_indices |-> trial_indices]

StopCall ==
    /\ call.fn = "should_stop_trials_early" /\ ~call.done
    /\ LET a == call.args
       IN  call' = [call EXCEPT
                !.done = TRUE,
                !.ret = should_stop_trials_early(a.strategy, a.trial_indices,
                                                 a.experiment)]
    /\ UNCHANGED <<heap, facade, everFit, last>>

InitESS ==
    /\ \E a \in {"full", "partial"}, pt \in Thresholds :
          IF a = "full"
          THEN \E n \in 1..MaxTrials : \E v \in [1..n -> MetricValues] :
                  call = [fn |-> "should_stop_trials_early",
                          args |-> StopArgs(PercentileEarlyStoppingStrategy(pt, 1, 0),
                                            1..n, FullExperiment(v)),
                          done |-> FALSE, ret |-> <<>>]
          ELSE \E e \in PartialExperiments, mc \in {1, 3}, mp \in {0, 1} :
                  \E idcs \in CandidateSets(e) :
                      call = [fn |-> "should_stop_trials_early",
                              args |-> StopArgs(PercentileEarlyStoppingStrategy(pt, mc, mp),
                                                idcs, e),
                              done |-> FALSE, ret |-> <<>>]
    /\ FacadeIdle

NextESS == StopCall

SpecESS == InitESS /\ [][NextESS]_vars

StopDone == call.fn = "should_stop_trials_early" /\ call.done

\* The value of trial i at the last progression of its curve
FinalValue(i) == ValueAt(call.args.experiment.curves[i], LastProgression(call.args.experiment.curves[i]))

\* Five trials with pairwise distinct values, all candidates, all at progression 1
FiveDistinct ==
    /\ StopDone
    /\ call.args.experiment.data = "map"
    /\ DOMAIN call.args.experiment.curves = 1..5
    /\ call.args.trial_indices = 1..5
    /\ \A i \in 1..5 : Len(call.args.experiment.curves[i]) = 2
    /\ \A i, j \in 1..5 : i # j => FinalValue(i) # FinalValue(j)
    /\ call.args.strategy.min_curves <= 5
    /\ call.args.strategy.min_progression <= 1

\* The k worst of the five trials
WorstOfFive(k) == {i \in 1..5 : Cardinality({j \in 1..5 : FinalValue(j) > FinalValue(i)}) < k}

\* C10: for five trials with distinct values threshold 25 stops exactly the worst
\* trial, 50 the two worst and 75 the three worst; for every experiment the stop set
\* grows with the threshold and holds only trials of trial_indices.
C10_PercentileRanking ==
    StopDone
    => /\ FiveDistinct
          => call.ret.stop = WorstOfFive((call.args.strategy.percentile_threshold * 5) \div 100)
       /\ call.ret.stop \subseteq call.args.trial_indices
       /\ \A t \in Thresholds :
             LET other == should_stop_trials_early(
                              [call.args.strategy EXCEPT !.percentile_threshold = t],
                              call.args.trial_indices, call.args.experiment)
             IN  t <= call.args.strategy.percentile_threshold
                 => other.stop \subseteq call.ret.stop

\* C10 witness: five distinct values, threshold 50, and the two worst trials stopped
C10_Witness ==
    /\ FiveDistinct
    /\ call.args.strategy.percentile_threshold = 50
    /\ Cardinality(call.ret.stop) = 2
    /\ call.ret.stop = WorstOfFive(2)

\* The candidate trials of the call that have curve data
Candidates == call.args.trial_indices \cap TrialsWithData(call.args.experiment)

\* The call's experiment has progression-indexed data and one of the two guards
\* applies: too few trials with data, or the common progression below min_progression
GuardApplies ==
    /\ call.fn = "should_stop_trials_early"
    /\ call.args.experiment.data = "map"
    /\ \/ TooFewCurves(call.args.strategy, TrialsWithData(call.args.experiment))
       \/ /\ Candidates # {}
          /\ CommonProgression(call.args.experiment, Candidates) < call.args.strategy.min_progression

\* What the ranking alone would stop, were min_curves 0 and min_progression 0
Unguarded ==
    should_stop_trials_early([call.args.strategy EXCEPT !.min_curves = 0, !.min_progression = 0],
                             call.args.trial_indices, call.args.experiment)

\* C11: for every percentile_threshold, should_stop_trials_early returns the empty set
\* when fewer than min_curves trials have curve data and when the most recent common
\* progression is below min_progression; the call leaves the experiment as it was.
C11_GuardsStopNothing ==
    [][ (call.fn = "should_stop_trials_early" /\ ~call.done /\ call'.done)
        => /\ GuardApplies => (call'.ret.err = "none" /\ call'.ret.stop = {})
           /\ call'.args.experiment = call.args.experiment ]_vars

\* C11 witness: the common progression is below min_progression, enough trials have
\* data, the ranking alone would have stopped a trial, and nothing was stopped
C11_Witness ==
    /\ StopDone
    /\ GuardApplies
    /\ ~TooFewCurves(call.args.strategy, TrialsWithData(call.args.experiment))
    /\ Unguarded.stop # {}
    /\ call.ret.stop = {}

----------------------------------------------------------------------------
(* Specification of the direct Candidate Optimizer calls *)

OptimizerKwargs ==
    [num_restarts : {None, Some(2)}, num_raw_samples : {None, Some(7)},
     joint_optimization : {None, Some(0), Some(1)},
     method : {None, Some("SLSQP"), Some("L-BFGS-B")}]

OptimizerArgs(n, kw, ineq, fixed) == [n |-> n, kwargs |-> kw, inequality_constraints |-> ineq, fixed_features |-> fixed]

OptimizerCall ==
    /\ call.fn = "scipy_optimizer" /\ ~call.done
    /\ LET a == call.args
       IN  call' = [call EXCEPT
                !.done = TRUE,
                !.ret = scipy_optimizer("acqf", "bounds", a.n, a.inequality_constraints,
                                        a.fixed_features, None, a.kwargs)]
    /\ UNCHANGED <<heap, facade, everFit, last>>

InitOptimizer ==
    /\ \E n \in 1..MaxCandidates, kw \in OptimizerKwargs,
          ineq \in {None, Some("x1 >= 0")}, fixed \in {None, Some("x2 = 1")} :
          call = [fn |-> "scipy_optimizer", args |-> OptimizerArgs(n, kw, ineq, fixed),
                  done |-> FALSE, ret |-> <<>>]
    /\ FacadeIdle

NextOptimizer == OptimizerCall

SpecOptimizer == InitOptimizer /\ [][NextOptimizer]_vars

OptimizerDone == call.fn = "scipy_optimizer" /\ call.done

\* C12: scipy_optimizer calls the solver exactly once, with q = n; in joint mode if
\* and only if kwargs has joint_optimization set to true, else in sequential mode; in
\* sequential mode the method handed on is SLSQP if the caller gave none and the
\* caller's if one was given; in joint mode the options are the caller's, no method
\* added.
C12_OptimizerModeSelection ==
    OptimizerDone
    => /\ Len(call.ret.solver_calls) = 1
       /\ LET c == call.ret.solver_calls[1]
              kw == call.args.kwargs
          IN  /\ c.q = call.args.n
              /\ ~c.sequential <=> kw.joint_optimization = Some(1)
              /\ c.sequential
                 => c.options.method = (IF IsNone(kw.method) THEN Some("SLSQP") ELSE kw.method)
              /\ ~c.sequential => c.options = kw

\* C12 witness: joint_optimization present but false and no method given: one
\* sequential solver call with SLSQP
C12_Witness ==
    /\ OptimizerDone
    /\ call.args.kwargs.joint_optimization = Some(0)
    /\ IsNone(call.args.kwargs.method)
    /\ call.args.n = 2
    /\ call.ret.solver_calls[1].sequential
    /\ call.ret.solver_calls[1].options.method = Some("SLSQP")

====
